---- MODULE Spec2Model ----
(***************************************************************************)
(* pybudget: the changeset engine (apply.py) and the indexed record store  *)
(* (csv_tools.py LargeCSV).                                                *)
(*                                                                         *)
(* Strings are sequences of one-character strings, so that strip(), the    *)
(* csv quoting rules and byte offsets are computed, not assumed.           *)
(* A Python dict with string keys and a fixed key set (a csv row) is a     *)
(* function from column name to value; a dict whose insertion order or     *)
(* key set matters (merged, split_groups) is a sequence of <<key, value>>. *)
(***************************************************************************)
EXTENDS Integers, Sequences, FiniteSets, TLC

VARIABLES
    \* ---- apply_changeset (apply.py) ----
    heap,             \* the row objects: address -> dict (Python reference semantics)
    primary_rows,     \* the caller's list: addresses of the caller's row objects
    primary_at_call,  \* history: the contents of the caller's rows when the call began
    changeset,        \* the changeset argument: a sequence of row dicts
    skip_dangling,    \* the skip_dangling argument
    merged,           \* local dict id -> row object, as <<id, address>> in insertion order
    all_fields,       \* local set of column names
    split_groups,     \* local dict id -> list of nonempty_fields, as <<id, parts>>
    i,                \* position of the for loop over changeset (1-based)
    pc,               \* "idle" | "rows" | "returned" | "exited" | "raised"
    result,           \* <<>> until the call returns; then <<rows, fieldnames>>
    stderr,           \* the WARN lines printed by eprint
    exit_msg,         \* the message handed to sys.exit, or the exception raised
    \* ---- LargeCSV (csv_tools.py) ----
    data,             \* the data file: [exists, lines], each line without its \r\n
    sidecar,          \* the .idx.json file: [exists, index, fieldnames]
    opened,           \* a LargeCSV object has been constructed
    index,            \* self.index: id -> offset, as <<id, offset>> in insertion order
    fieldnames,       \* self.fieldnames
    temp,             \* whether a rewrite has left its temp file behind
    last_call,        \* the last store call: [op, outcome, ret], and args for a read
    gone,             \* history: the ids batch_delete removed, [since_append, since_write]
    appended,         \* history: the records handed to append, in order
    \* ---- safe_file_update_context (utils.py) ----
    original_path,    \* the file at original_path: [exists, content]
    temp_path,        \* the file at temp_path, the temp file of the latest entry
    backup_path,      \* the file at backup_path (original_path + '.bak')
    ctx,              \* the context manager: [pc, keep_backup, dry_run, entered, work,
                      \* raised]; entered is history, the files as they were on entry
    \* ---- stable_id (util.py) ----
    hashed            \* the calls of stable_id made so far on a pair of rows:
                      \* [a, b, id_a, id_b]

applyVars == <<heap, primary_rows, primary_at_call, changeset, skip_dangling,
               merged, all_fields, split_groups, i, pc, result, stderr, exit_msg>>

storeVars == <<data, sidecar, opened, index, fieldnames, temp, last_call, gone, appended>>

histVars == <<gone, appended>>

txVars == <<original_path, temp_path, backup_path, ctx>>

idVars == <<hashed>>

\* what a store call leaves alone besides the store's own variables
aside == <<histVars, txVars>>

\* what apply_changeset leaves alone
notApply == <<storeVars, txVars, idVars>>

vars == <<applyVars, storeVars, txVars, idVars>>

-----------------------------------------------------------------------------
(* Strings *)

EmptyStr == <<>>

IsSpace(c) == c \in {" ", "\t", "\r", "\n"}

RECURSIVE LStrip(_)
LStrip(s) == IF s # <<>> /\ IsSpace(Head(s)) THEN LStrip(Tail(s)) ELSE s

RECURSIVE RStrip(_)
RStrip(s) == IF s # <<>> /\ IsSpace(s[Len(s)])
             THEN RStrip(SubSeq(s, 1, Len(s) - 1)) ELSE s

\* str.strip()
Strip(s) == RStrip(LStrip(s))

LowerChar(c) ==
    CASE c = "A" -> "a" [] c = "D" -> "d" [] c = "U" -> "u" [] c = "S" -> "s"
      [] OTHER -> c

\* str.lower()
Lower(s) == [k \in 1..Len(s) |-> LowerChar(s[k])]

\* sep.join(parts)
RECURSIVE Join(_, _)
Join(parts, sep) ==
    IF parts = <<>> THEN <<>>
    ELSE IF Len(parts) = 1 THEN parts[1]
    ELSE parts[1] \o sep \o Join(Tail(parts), sep)

DigitVal(c) ==
    CASE c = "0" -> 0 [] c = "1" -> 1 [] c = "2" -> 2 [] c = "3" -> 3
      [] c = "4" -> 4 [] c = "5" -> 5 [] c = "6" -> 6 [] c = "7" -> 7
      [] c = "8" -> 8 [] c = "9" -> 9 [] OTHER -> -1

IsDigits(s) == s # <<>> /\ \A k \in 1..Len(s) : DigitVal(s[k]) >= 0

RECURSIVE DecimalValue(_)
DecimalValue(s) ==
    IF s = <<>> THEN 0
    ELSE DecimalValue(SubSeq(s, 1, Len(s) - 1)) * 10 + DigitVal(s[Len(s)])

\* float(s) on the strings of the model's alphabet: surrounding whitespace is
\* ignored, a digit string is its value, anything else raises ValueError.
ParseFloat(s) ==
    IF IsDigits(Strip(s)) THEN [ok |-> TRUE, val |-> DecimalValue(Strip(s))]
    ELSE [ok |-> FALSE, val |-> 0]

-----------------------------------------------------------------------------
(* Python dicts *)

\* d.get(k, default)
Get(d, k, default) == IF k \in DOMAIN d THEN d[k] ELSE default

\* an update that blanks every column of f that g does not give, the id apart
OverlayBlanking(f, g) ==
    [k \in DOMAIN f \cup DOMAIN g |->
        IF k \in DOMAIN g THEN g[k] ELSE IF k = "id" THEN f[k] ELSE <<>>] @@ <<>>

\* {**f, **g}  and  f.update(g)
Overlay(f, g) ==
    [k \in DOMAIN f \cup DOMAIN g |-> IF k \in DOMAIN g THEN g[k] ELSE f[k]] @@ <<>>

DictKeys(d) == {d[k][1] : k \in 1..Len(d)}

DictHas(d, key) == key \in DictKeys(d)

DictPos(d, key) == CHOOSE k \in 1..Len(d) : d[k][1] = key

DictGet(d, key) == d[DictPos(d, key)][2]

\* a list of pairs that is never looked up before it is extended
DictAppend(d, k, v) == Append(d, <<k, v>>)

\* d[key] = val: an existing key keeps its position
DictSet(d, key, val) ==
    IF DictHas(d, key)
    THEN [d EXCEPT ![DictPos(d, key)] = <<key, val>>]
    ELSE Append(d, <<key, val>>)

\* del d[key]
DictDel(d, key) ==
    LET p == DictPos(d, key)
    IN SubSeq(d, 1, p - 1) \o SubSeq(d, p + 1, Len(d))

-----------------------------------------------------------------------------
(* util.stable_id *)

\* hashlib.sha1(raw).hexdigest()[:10], idealised as collision-free: the digest
\* of raw is raw behind a mark that no input string contains.
Sha1Prefix(raw) == <<"#">> \o raw

\* an id over the four values as they stand in the row
RawId(row) ==
    Sha1Prefix(Join(<<Get(row, "date", EmptyStr), Get(row, "description", EmptyStr),
                      Get(row, "amount", EmptyStr), Get(row, "account", EmptyStr)>>,
                    <<"|">>))

stable_id(row) ==
    Sha1Prefix(Join(<<Strip(Get(row, "date", EmptyStr)),
                      Strip(Get(row, "description", EmptyStr)),
                      Strip(Get(row, "amount", EmptyStr)),
                      Strip(Get(row, "account", EmptyStr))>>, <<"|">>))

-----------------------------------------------------------------------------
(* Inputs of apply_changeset *)

MaxOps == 3

sDelete == <<"d", "e", "l", "e", "t", "e">>
sUpdate == <<"u", "p", "d", "a", "t", "e">>
sAdd    == <<"A", "d", "d", " ">>
sSplit  == <<"s", "p", "l", "i", "t">>
sBogus  == <<"m", "o", "v", "e">>

BaseRow(id, description, amount, category) ==
    [id |-> id, date |-> <<"d">>, description |-> description,
     amount |-> amount, account |-> <<"k">>, category |-> category]

HashedRow(description, amount, category) ==
    BaseRow(stable_id(BaseRow(<<>>, description, amount, category)),
            description, amount, category)

\* ids 1, 2, 3; record 3 has no amount
BaseA ==
    << BaseRow(<<"1">>, <<"a">>, <<"1", "0">>, <<>>),
       BaseRow(<<"2">>, <<"b">>, <<"1", "0">>, <<>>),
       BaseRow(<<"3">>, <<"c">>, <<>>, <<>>) >>

\* a record whose id is its stable id (normalize.py), and two records sharing id 1
BaseB ==
    << HashedRow(<<"c">>, <<"5">>, <<>>),
       BaseRow(<<"1">>, <<"a">>, <<"1", "0">>, <<>>),
       BaseRow(<<"1">>, <<"a">>, <<"1", "0">>, <<"h">>) >>

Bases == {BaseA, BaseB, <<>>}

Ops ==
    { [type |-> sUpdate, id |-> <<"2">>, category |-> <<"g">>, amount |-> <<>>],
      [type |-> sUpdate, id |-> <<" ", "1">>, amount |-> <<"9">>],
      [type |-> sUpdate, id |-> <<"9">>, category |-> <<"g">>],
      [type |-> sDelete, id |-> <<"5">>],
      [type |-> sDelete, id |-> <<"1">>],
      [type |-> sAdd, id |-> <<"7">>, date |-> <<"d">>, description |-> <<" ", "c">>,
       amount |-> <<"5">>, account |-> <<"k">>, notes |-> <<"n">>],
      [type |-> sSplit, id |-> <<"1">>, amount |-> <<"4">>],
      [type |-> sSplit, id |-> <<"1">>, amount |-> <<"6">>],
      [type |-> sSplit, id |-> <<"1">>, amount |-> <<"5">>],
      [type |-> sSplit, id |-> <<"8">>, amount |-> <<"4">>],
      [type |-> sSplit, id |-> <<>>, amount |-> <<"4">>],
      [type |-> sBogus, id |-> <<"1">>] }

RECURSIVE SeqsUpTo(_, _)
SeqsUpTo(S, n) ==
    IF n = 0 THEN {<<>>}
    ELSE LET shorter == SeqsUpTo(S, n - 1)
         IN shorter \cup {Append(q, x) : q \in shorter, x \in S}

Changesets == SeqsUpTo(Ops, MaxOps)

-----------------------------------------------------------------------------
(* apply.apply_changeset *)

RECURSIVE DictFromRows(_, _, _)
\* {row['id']: <object at base + k> for k, row in enumerate(rows)}
DictFromRows(rows, base, k) ==
    IF k = 0 THEN <<>>
    ELSE DictSet(DictFromRows(rows, base, k - 1), rows[k]["id"], base + k)

\* merged = {row['id']: row}: the dict holds the caller's own row objects
MergedInitAliased(rows) ==
    [heap |-> rows, merged |-> DictFromRows(rows, 0, Len(rows))]

\* merged = {row['id']: row.copy() for row in primary_rows}: one new object per row
MergedInit(rows) ==
    [heap |-> rows \o rows, merged |-> DictFromRows(rows, Len(rows), Len(rows))]

RowAction(row) == Lower(Strip(Get(row, "type", EmptyStr)))

RowId(row) == Strip(Get(row, "id", EmptyStr))

\* every column of the row but id and type, empty or not
GivenFields(row) == [k \in DOMAIN row \ {"id", "type"} |-> row[k]]

NonemptyFields(row) ==
    [k \in {c \in DOMAIN row : row[c] # EmptyStr /\ c \notin {"id", "type"}} |-> row[k]]

\* the contents of the caller's row objects, as the caller sees them now
PrimaryView == [k \in 1..Len(primary_rows) |-> heap[primary_rows[k]]]

\* list(merged.values())
MergedValues(m, h) == [k \in 1..Len(m) |-> h[m[k][2]]]

ColumnOrder == <<"account", "amount", "category", "date", "description", "id",
                 "memo", "notes", "type">>

RECURSIVE SortedFrom(_, _)
SortedFrom(order, fields) ==
    IF order = <<>> THEN <<>>
    ELSE IF Head(order) \in fields
         THEN <<Head(order)>> \o SortedFrom(Tail(order), fields)
         ELSE SortedFrom(Tail(order), fields)

\* sorted(all_fields)
SortedFields(fields) == SortedFrom(ColumnOrder, fields)

DanglingPolicyAlwaysWarn(skip) == "warn"

DanglingPolicyAlwaysExit(skip) == "exit"

\* if skip_dangling: eprint(WARN) else: sys.exit(ERROR)
DanglingPolicy(skip) == IF skip THEN "warn" ELSE "exit"

Call(base, cs, skip) ==
    /\ pc = "idle"
    /\ primary_rows' = [k \in 1..Len(base) |-> k]
    /\ primary_at_call' = base
    /\ changeset' = cs
    /\ skip_dangling' = skip
    /\ heap' = MergedInit(base).heap
    /\ merged' = MergedInit(base).merged
    /\ split_groups' = <<>>
    /\ i' = 1
    /\ result' = <<>>
    /\ stderr' = <<>>
    /\ IF base = <<>>
       THEN \* primary_rows[0] raises IndexError
            /\ pc' = "raised"
            /\ exit_msg' = "IndexError"
            /\ all_fields' = {}
       ELSE /\ pc' = "rows"
            /\ exit_msg' = ""
            /\ all_fields' = DOMAIN base[1]
    /\ UNCHANGED notApply

InLoop == pc = "rows" /\ i <= Len(changeset)

Row == changeset[i]

\* the dangling branch of delete, update and of a split group
Dangling(what, locals) ==
    IF DanglingPolicy(skip_dangling) = "warn"
    THEN /\ stderr' = Append(stderr, "WARN: " \o what)
         /\ UNCHANGED <<pc, exit_msg>>
         /\ locals
    ELSE /\ pc' = "exited"
         /\ exit_msg' = "ERROR: " \o what
         /\ UNCHANGED <<stderr, i, split_groups>>

RowFrame ==
    UNCHANGED <<primary_rows, primary_at_call, changeset, skip_dangling, result, notApply>>

DoDelete ==
    /\ InLoop
    /\ RowAction(Row) = sDelete
    /\ all_fields' = all_fields \cup DOMAIN Row
    /\ IF DictHas(merged, RowId(Row))
       THEN /\ merged' = DictDel(merged, RowId(Row))
            /\ i' = i + 1
            /\ UNCHANGED <<heap, split_groups, pc, stderr, exit_msg>>
       ELSE /\ Dangling("delete: dangling id", i' = i + 1 /\ UNCHANGED split_groups)
            /\ UNCHANGED <<heap, merged>>
    /\ RowFrame

DoUpdate ==
    /\ InLoop
    /\ RowAction(Row) = sUpdate
    /\ all_fields' = all_fields \cup DOMAIN Row
    /\ IF DictHas(merged, RowId(Row))
       THEN /\ heap' = [heap EXCEPT ![DictGet(merged, RowId(Row))] =
                            Overlay(@, NonemptyFields(Row))]
            /\ i' = i + 1
            /\ UNCHANGED <<merged, split_groups, pc, stderr, exit_msg>>
       ELSE /\ Dangling("update: dangling id", i' = i + 1 /\ UNCHANGED split_groups)
            /\ UNCHANGED <<heap, merged>>
    /\ RowFrame

\* new_row = {**{k: '' for k in all_fields}, **nonempty_fields}
AddBlankRow(fields, nonempty) == Overlay([k \in fields |-> EmptyStr], nonempty)

\* ... new_row['id'] = stable_id(new_row)
AddNewRow(fields, nonempty) ==
    Overlay(AddBlankRow(fields, nonempty),
            [id |-> stable_id(AddBlankRow(fields, nonempty))])

DoAdd ==
    /\ InLoop
    /\ RowAction(Row) = <<"a", "d", "d">>
    /\ all_fields' = all_fields \cup DOMAIN Row
    /\ LET nonempty == NonemptyFields(Row)
           new_id == stable_id(AddBlankRow(all_fields', nonempty))
       IN /\ heap' = Append(heap, AddNewRow(all_fields', nonempty))
          /\ merged' = DictSet(merged, new_id, Len(heap) + 1)
    /\ i' = i + 1
    /\ UNCHANGED <<split_groups, pc, stderr, exit_msg>>
    /\ RowFrame

DoSplitRow ==
    /\ InLoop
    /\ RowAction(Row) = sSplit
    /\ all_fields' = all_fields \cup DOMAIN Row
    /\ IF RowId(Row) = EmptyStr
       THEN /\ pc' = "exited"
            /\ exit_msg' = "ERROR: split requires an id"
            /\ UNCHANGED <<split_groups, i>>
       ELSE /\ split_groups' =
                  IF DictHas(split_groups, RowId(Row))
                  THEN DictSet(split_groups, RowId(Row),
                               Append(DictGet(split_groups, RowId(Row)),
                                      NonemptyFields(Row)))
                  ELSE DictSet(split_groups, RowId(Row), <<NonemptyFields(Row)>>)
            /\ i' = i + 1
            /\ UNCHANGED <<pc, exit_msg>>
    /\ UNCHANGED <<heap, merged, stderr>>
    /\ RowFrame

DoUnknown ==
    /\ InLoop
    /\ RowAction(Row) \notin {sDelete, sUpdate, <<"a", "d", "d">>, sSplit}
    /\ all_fields' = all_fields \cup DOMAIN Row
    /\ Dangling("Unknown or missing action type", i' = i + 1 /\ UNCHANGED split_groups)
    /\ UNCHANGED <<heap, merged>>
    /\ RowFrame

\* float(s.get('amount', 0.0)) for one split part
PartAmount(s) ==
    IF "amount" \in DOMAIN s THEN ParseFloat(s["amount"]) ELSE [ok |-> TRUE, val |-> 0]

RECURSIVE SplitTotal(_)
\* sum(float(s.get('amount', 0.0)) for s in splits)
SplitTotal(splits) ==
    IF splits = <<>> THEN 0 ELSE PartAmount(Head(splits)).val + SplitTotal(Tail(splits))

SplitsParse(splits) == \A k \in 1..Len(splits) : PartAmount(splits[k]).ok

Abs(x) == IF x < 0 THEN -x ELSE x

SplitMismatchLoose(split_total, original_amount) ==
    Abs(split_total - original_amount) > 1

\* abs(split_total - original_amount) > 1e-6, the amounts being whole numbers
SplitMismatch(split_total, original_amount) ==
    Abs(split_total - original_amount) * 1000000 > 1

SplitNewRowKeepId(original, s) == Overlay(original, s)

\* new_row = original.copy(); new_row.update(s); new_row['id'] = stable_id(new_row)
SplitNewRow(original, s) ==
    Overlay(Overlay(original, s), [id |-> stable_id(Overlay(original, s))])

RECURSIVE InsertSplits(_, _, _, _)
\* for s in splits: ... merged[new_id] = new_row
InsertSplits(m, h, original, splits) ==
    IF splits = <<>> THEN [merged |-> m, heap |-> h]
    ELSE InsertSplits(DictSet(m, stable_id(Overlay(original, Head(splits))), Len(h) + 1),
                      Append(h, SplitNewRow(original, Head(splits))),
                      original, Tail(splits))

\* split groups are taken up at any time
AnyTime == pc = "rows"

\* the for loop over the changeset has ended
AfterLoop == pc = "rows" /\ i > Len(changeset)

Group == Head(split_groups)

GroupOriginal == heap[DictGet(merged, Group[1])]

GroupOriginalAmount ==
    IF "amount" \in DOMAIN GroupOriginal THEN ParseFloat(GroupOriginal["amount"])
    ELSE [ok |-> TRUE, val |-> 0]

\* one iteration of: for rid, splits in split_groups.items()
DoSplitGroup ==
    /\ AfterLoop
    /\ split_groups # <<>>
    /\ IF ~DictHas(merged, Group[1])
       THEN /\ Dangling("split: dangling id",
                        split_groups' = Tail(split_groups) /\ UNCHANGED i)
            /\ UNCHANGED <<heap, merged>>
       ELSE IF ~GroupOriginalAmount.ok \/ ~SplitsParse(Group[2])
       THEN \* float() raises ValueError
            /\ pc' = "raised"
            /\ exit_msg' = "ValueError"
            /\ UNCHANGED <<heap, merged, split_groups, stderr, i>>
       ELSE IF SplitMismatch(SplitTotal(Group[2]), GroupOriginalAmount.val)
       THEN /\ pc' = "exited"
            /\ exit_msg' = "ERROR: split amounts != original"
            /\ UNCHANGED <<heap, merged, split_groups, stderr, i>>
       ELSE LET done == InsertSplits(DictDel(merged, Group[1]), heap,
                                     GroupOriginal, Group[2])
            IN /\ merged' = done.merged
               /\ heap' = done.heap
               /\ split_groups' = Tail(split_groups)
               /\ UNCHANGED <<pc, exit_msg, stderr, i>>
    /\ UNCHANGED all_fields
    /\ RowFrame

\* return list(merged.values()), sorted(all_fields)
Return ==
    /\ AfterLoop
    /\ split_groups = <<>>
    /\ pc' = "returned"
    /\ result' = <<MergedValues(merged, heap), SortedFields(all_fields)>>
    /\ UNCHANGED <<heap, primary_rows, primary_at_call, changeset, skip_dangling,
                   merged, all_fields, split_groups, i, stderr, exit_msg, notApply>>

ApplyIdle ==
    /\ heap = <<>>
    /\ primary_rows = <<>>
    /\ primary_at_call = <<>>
    /\ changeset = <<>>
    /\ skip_dangling = FALSE
    /\ merged = <<>>
    /\ all_fields = {}
    /\ split_groups = <<>>
    /\ i = 1
    /\ pc = "idle"
    /\ result = <<>>
    /\ stderr = <<>>
    /\ exit_msg = ""

CallAny ==
    /\ pc = "idle"
    /\ \E base \in Bases, cs \in Changesets, skip \in BOOLEAN : Call(base, cs, skip)

NextApply ==
    \/ CallAny
    \/ DoDelete
    \/ DoUpdate
    \/ DoAdd
    \/ DoSplitRow
    \/ DoUnknown
    \/ DoSplitGroup
    \/ Return

-----------------------------------------------------------------------------
(* Properties of apply_changeset *)

NoDuplicateIds(rows) ==
    \A a, b \in 1..Len(rows) : a # b => rows[a]["id"] # rows[b]["id"]

\* what merged holds right after line 28, for the rows the caller passed
MergedAtCall ==
    MergedValues(MergedInit(primary_at_call).merged, MergedInit(primary_at_call).heap)

HasAction(kind) == \E k \in 1..Len(changeset) : RowAction(changeset[k]) = kind

\* a delete or update row whose id is not in the working set when it is processed
DanglingRow ==
    /\ InLoop
    /\ RowAction(Row) \in {sDelete, sUpdate}
    /\ ~DictHas(merged, RowId(Row))

\* a split group whose id is not in the working set when it is processed
DanglingGroup ==
    /\ AfterLoop
    /\ split_groups # <<>>
    /\ ~DictHas(merged, Group[1])

\* a split group for a present record, all amounts readable
GroupReady ==
    /\ AfterLoop
    /\ split_groups # <<>>
    /\ DictHas(merged, Group[1])
    /\ GroupOriginalAmount.ok
    /\ SplitsParse(Group[2])

RECURSIVE SumAmounts(_)
SumAmounts(rows) ==
    IF rows = <<>> THEN 0
    ELSE ParseFloat(Head(rows)["amount"]).val + SumAmounts(Tail(rows))

\* C1: whenever apply_changeset returns, no two records of the returned list have
\* the same id (in particular for changesets without dangling references).
C1_NoDuplicateIds == pc = "returned" => NoDuplicateIds(result[1])

\* C1 witness: a changeset with an add and a split was applied without any dangling
\* reference and returned more records than the base had.
C1_Witness ==
    /\ pc = "returned"
    /\ stderr = <<>>
    /\ HasAction(sSplit)
    /\ HasAction(<<"a", "d", "d">>)
    /\ Len(result[1]) > Len(primary_at_call)

\* C2: when a split group for a present record sums to the record's
\* amount, the step removes the original id and leaves N new records, one per
\* part, whose amounts sum to the original amount.
C2_SplitReplacesOriginal ==
    [][GroupReady /\ SplitTotal(Group[2]) = GroupOriginalAmount.val
       => LET created == SelectSeq(merged', LAMBDA e : e[2] > Len(heap))
          IN /\ ~DictHas(merged', Group[1])
             /\ Len(created) = Len(Group[2])
             /\ SumAmounts(MergedValues(created, heap')) = GroupOriginalAmount.val]_vars

\* C3: when the call ends on a split mismatch, nothing was returned and the
\* caller's base rows hold what they held when the call began.
C3_RejectedSplitLeavesBase ==
    pc = "exited" /\ exit_msg = "ERROR: split amounts != original"
    => result = <<>> /\ PrimaryView = primary_at_call

\* C3 witness: a split mismatch ended the call after earlier operations of the
\* changeset had already changed the working set.
C3_Witness ==
    /\ pc = "exited"
    /\ exit_msg = "ERROR: split amounts != original"
    /\ MergedValues(merged, heap) # MergedAtCall

\* C4: a split group for a present record whose parts do not sum to the record's
\* amount ends the call with sys.exit, with skip_dangling off and on, and prints
\* no warning.
C4_SplitMismatchAlwaysFatal ==
    [][GroupReady /\ SplitTotal(Group[2]) # GroupOriginalAmount.val
       => pc' = "exited" /\ stderr' = stderr /\ result' = <<>>]_vars

\* C4 witness: a split mismatch ended a call made with skip_dangling on, after a
\* dangling reference had been skipped with a warning.
C4_Witness ==
    /\ pc = "exited"
    /\ exit_msg = "ERROR: split amounts != original"
    /\ skip_dangling
    /\ stderr # <<>>

\* C5: with skip_dangling off, a dangling update, delete or split group ends the
\* call: nothing is returned and the caller's base rows are as passed.
C5_DanglingAbortsByDefault ==
    [][(DanglingRow \/ DanglingGroup) /\ ~skip_dangling
       => pc' = "exited" /\ result' = <<>> /\ PrimaryView' = primary_at_call']_vars

\* C5 witness: a dangling split group ended a call made with skip_dangling off,
\* after earlier operations had changed the working set.
C5_Witness ==
    /\ pc = "exited"
    /\ exit_msg = "ERROR: split: dangling id"
    /\ ~skip_dangling
    /\ MergedValues(merged, heap) # MergedAtCall

\* C6: with skip_dangling on, a dangling update, delete or split group changes no
\* record of the working set, prints one warning, and the loop goes on to the
\* next operation.
C6_DanglingSkipped ==
    [][(DanglingRow \/ DanglingGroup) /\ skip_dangling
       => /\ MergedValues(merged', heap') = MergedValues(merged, heap)
          /\ merged' = merged
          /\ pc' = "rows"
          /\ Len(stderr') = Len(stderr) + 1
          /\ IF DanglingRow THEN i' = i + 1 /\ split_groups' = split_groups
             ELSE split_groups' = Tail(split_groups) /\ i' = i]_vars

\* C6 witness (scenario A): ids 1, 2, 3 with [Update(2, category), Delete(5)] and
\* skip_dangling on returns 3 records, record 2 updated, one warning printed.
C6_Witness ==
    /\ pc = "returned"
    /\ skip_dangling
    /\ primary_at_call = BaseA
    /\ Len(changeset) = 2
    /\ RowAction(changeset[1]) = sUpdate /\ RowId(changeset[1]) = <<"2">>
    /\ RowAction(changeset[2]) = sDelete /\ RowId(changeset[2]) = <<"5">>
    /\ stderr = <<"WARN: delete: dangling id">>
    /\ Len(result[1]) = 3
    /\ result[1][2] = [BaseA[2] EXCEPT !["category"] = <<"g">>]
    /\ result[1][1] = BaseA[1] /\ result[1][3] = BaseA[3]

-----------------------------------------------------------------------------
(* csv module: writer (QUOTE_MINIMAL, lineterminator \r\n) and reader.       *)
(* A file is the sequence of its lines, each ended by the writer's \r\n;    *)
(* no field holds a line break.                                             *)

CRLF == <<"\r", "\n">>

NeedsQuote(v) == \E k \in 1..Len(v) : v[k] \in {",", "\"", "\r", "\n"}

RECURSIVE DoubleQuotes(_)
DoubleQuotes(v) ==
    IF v = <<>> THEN <<>>
    ELSE (IF Head(v) = "\"" THEN <<"\"", "\"">> ELSE <<Head(v)>>) \o DoubleQuotes(Tail(v))

\* a writer that never quotes
QuoteNever(v) == v

QuoteField(v) == IF NeedsQuote(v) THEN <<"\"">> \o DoubleQuotes(v) \o <<"\"">> ELSE v

\* writer.writerow(values), without the line terminator
FormatRow(values) ==
    Join(<<>> \o [k \in 1..Len(values) |-> QuoteField(values[k])], <<",">>)

RECURSIVE CsvFields(_, _, _, _)
\* csv.reader on one line: the list of its fields
CsvFields(chars, cur, quoted, acc) ==
    IF chars = <<>> THEN Append(acc, cur)
    ELSE LET c == Head(chars)
             rest == Tail(chars)
         IN IF quoted
            THEN IF c = "\""
                 THEN IF rest # <<>> /\ Head(rest) = "\""
                      THEN CsvFields(Tail(rest), Append(cur, "\""), TRUE, acc)
                      ELSE CsvFields(rest, cur, FALSE, acc)
                 ELSE CsvFields(rest, Append(cur, c), TRUE, acc)
            ELSE IF c = "," THEN CsvFields(rest, <<>>, FALSE, Append(acc, cur))
            ELSE IF c = "\"" /\ cur = <<>> THEN CsvFields(rest, cur, TRUE, acc)
            ELSE IF c \in {"\r", "\n"} THEN Append(acc, cur)
            ELSE CsvFields(rest, Append(cur, c), FALSE, acc)

ParseLine(line) == CsvFields(line, <<>>, FALSE, <<>>)

\* the bytes a line takes in the file
LineSize(line) == Len(line) + Len(CRLF)

RECURSIVE FileSize(_)
\* f.tell() at the end of the file
FileSize(lines) == IF lines = <<>> THEN 0 ELSE LineSize(Head(lines)) + FileSize(Tail(lines))

RECURSIVE ReadLine(_, _)
\* f.seek(off); f.readline() with newline='': up to and including the line end
ReadLine(lines, off) ==
    IF lines = <<>> THEN <<>>
    ELSE IF off < LineSize(Head(lines))
         THEN SubSeq(Head(lines) \o CRLF, off + 1, LineSize(Head(lines)))
         ELSE ReadLine(Tail(lines), off - LineSize(Head(lines)))

Range(q) == {q[k] : k \in 1..Len(q)}

PosOf(q, x) == CHOOSE k \in 1..Len(q) : q[k] = x

\* the value csv.DictReader gives a column the line has no field for
NoneValue == <<"None">>

\* dict(zip(fieldnames, fields)) as DictReader builds it
RowOf(fields, names) ==
    [c \in Range(names) |->
        IF PosOf(names, c) <= Len(fields) THEN fields[PosOf(names, c)] ELSE NoneValue]
    @@ <<>>

\* DictWriter._dict_to_list: the row's values in column order, '' where absent
RowValues(row, names) ==
    <<>> \o [k \in 1..Len(names) |->
                 IF Get(row, names[k], EmptyStr) = NoneValue THEN EmptyStr
                 ELSE Get(row, names[k], EmptyStr)]

\* DictWriter raises ValueError for a key that is no column
WriterAccepts(row, names) == DOMAIN row \subseteq Range(names)

Columns == {"id", "description", "category", "memo"}

ColChars(c) ==
    CASE c = "id" -> <<"i", "d">>
      [] c = "description" -> <<"d", "e", "s", "c", "r", "i", "p", "t", "i", "o", "n">>
      [] c = "category" -> <<"c", "a", "t", "e", "g", "o", "r", "y">>
      [] c = "memo" -> <<"m", "e", "m", "o">>

\* writer.writeheader()
HeaderLine(names) == FormatRow(<<>> \o [k \in 1..Len(names) |-> ColChars(names[k])])

ColOfChars(chars) == CHOOSE c \in Columns : ColChars(c) = chars

ColumnsOf(fields) == <<>> \o [k \in 1..Len(fields) |-> ColOfChars(fields[k])]

\* reader.fieldnames: the column names a header line spells
HeaderColumns(line) == ColumnsOf(ParseLine(line))

\* the rows csv.DictReader yields for the lines after the header
RowsUnder(lines, names) ==
    <<>> \o [k \in 1..Len(lines) |-> RowOf(ParseLine(lines[k]), names)]

\* list(csv.DictReader(f)): the rows of the file under the file's own header
FileRows(lines) == RowsUnder(Tail(lines), HeaderColumns(lines[1]))

-----------------------------------------------------------------------------
(* csv_tools.LargeCSV *)

id_column == "id"

\* int(s) on the strings of the model's alphabet
ParseInt(s) ==
    IF IsDigits(Strip(s)) THEN [ok |-> TRUE, val |-> DecimalValue(Strip(s))]
    ELSE [ok |-> FALSE, val |-> 0]

DigitChar(n) == <<"0", "1", "2", "3", "4", "5", "6", "7", "8", "9">>[n + 1]

RECURSIVE IntToStr(_)
\* str(n) for n >= 0
IntToStr(n) ==
    IF n < 10 THEN <<DigitChar(n)>> ELSE IntToStr(n \div 10) \o <<DigitChar(n % 10)>>

MaxOf(S) == CHOOSE x \in S : \A y \in S : y <= x

get_next_incremental_id(idx) ==
    IF idx = <<>> THEN [ok |-> TRUE, id |-> <<"1">>]
    ELSE IF \A key \in DictKeys(idx) : ParseInt(key).ok
         THEN [ok |-> TRUE,
               id |-> IntToStr(MaxOf({ParseInt(key).val : key \in DictKeys(idx)}) + 1)]
         ELSE [ok |-> FALSE, id |-> <<>>]

RECURSIVE ScanIndex(_, _, _, _)
\* the while loop of rebuild_index over the lines not yet read, the next at off
ScanIndex(lines, off, names, idx) ==
    IF lines = <<>> THEN idx
    ELSE ScanIndex(Tail(lines), off + LineSize(Head(lines)), names,
                   DictSet(idx, RowOf(ParseLine(Head(lines)), names)[id_column], off))

\* rebuild_index once reader.fieldnames is known
IndexUnder(lines, names) ==
    IF id_column \notin Range(names)
    THEN [ok |-> FALSE, error |-> "ValueError", index |-> <<>>, fieldnames |-> names]
    ELSE [ok |-> TRUE, error |-> "",
          index |-> ScanIndex(Tail(lines), LineSize(lines[1]), names, <<>>),
          fieldnames |-> names]

\* rebuild_index on a data file that exists: the index and fieldnames it sets
rebuild_index(lines) ==
    IF lines = <<>>
    THEN [ok |-> FALSE, error |-> "TypeError", index |-> <<>>, fieldnames |-> <<>>]
    ELSE IndexUnder(lines, HeaderColumns(lines[1]))

\* _save_index
SavedIndex(idx, names) ==
    [exists |-> TRUE, json |-> "ok", index |-> idx, fieldnames |-> names]

NoFile == [exists |-> FALSE, lines |-> <<>>]

NoSidecar == [exists |-> FALSE, json |-> "", index |-> <<>>, fieldnames |-> <<>>]

\* a sidecar that is not what _save_index writes: text json.load rejects
\* ("unparseable"), or JSON without the keys index and fieldnames ("keyless")
DamagedSidecar(how) == [exists |-> TRUE, json |-> how, index |-> <<>>, fieldnames |-> <<>>]

NoCall == [op |-> "", outcome |-> "", ret |-> <<>>]

\* no id has been deleted yet
NoneDeleted == [since_append |-> {}, since_write |-> {}]

\* self.rebuild_index() followed by its self._save_index()
Rebuilt(built, sc) ==
    [ok |-> built.ok, error |-> built.error, index |-> built.index,
     fieldnames |-> built.fieldnames,
     sidecar |-> IF built.ok THEN SavedIndex(built.index, built.fieldnames) ELSE sc]

\* _load_or_build_index, as the constructor runs it on files d and sc
LoadOrBuild(d, sc) ==
    IF sc.exists /\ sc.json = "ok"
    THEN [ok |-> TRUE, error |-> "", index |-> sc.index, fieldnames |-> sc.fieldnames,
          sidecar |-> sc]
    ELSE IF sc.exists /\ sc.json = "keyless"
    THEN \* data['index'] raises KeyError, which the except clause does not name
         [ok |-> FALSE, error |-> "KeyError", index |-> <<>>, fieldnames |-> <<>>,
          sidecar |-> sc]
    ELSE IF ~d.exists
    THEN [ok |-> FALSE, error |-> "FileNotFoundError", index |-> <<>>,
          fieldnames |-> <<>>, sidecar |-> sc]
    ELSE Rebuilt(rebuild_index(d.lines), sc)

\* init_large_csv(path, fieldnames)
Create(names) ==
    /\ \E written \in {IF data.exists THEN data
                        ELSE [exists |-> TRUE, lines |-> <<HeaderLine(names)>>]} :
       \E loaded \in {LoadOrBuild(written, sidecar)} :
          /\ data' = written
          /\ sidecar' = loaded.sidecar
          /\ last_call' = [op |-> "create",
                           outcome |-> IF loaded.ok THEN "ok" ELSE loaded.error,
                           ret |-> <<>>]
    /\ UNCHANGED <<opened, index, fieldnames, temp, applyVars, idVars>>

\* LargeCSV(path)
Open ==
    /\ \E loaded \in {LoadOrBuild(data, sidecar)} :
          /\ sidecar' = loaded.sidecar
          /\ last_call' = [op |-> "open",
                           outcome |-> IF loaded.ok THEN "ok" ELSE loaded.error,
                           ret |-> <<>>]
          /\ IF loaded.ok
             THEN /\ opened' = TRUE
                  /\ index' = loaded.index
                  /\ fieldnames' = loaded.fieldnames
             ELSE UNCHANGED <<opened, index, fieldnames>>
    /\ UNCHANGED <<data, temp, applyVars, idVars>>

RECURSIVE AppendRows(_, _, _, _, _)

\* one pass of the for loop of append: given is the row as passed, next what
\* get_next_incremental_id answers should the row need an id
AppendRow(given, next, rest, lines, idx, names, results) ==
    LET needs_id == Get(given, id_column, EmptyStr) = EmptyStr
        row_data == IF needs_id THEN Overlay(given, [id |-> next.id]) ELSE given
    IN IF (needs_id /\ ~next.ok) \/ ~WriterAccepts(row_data, names)
       THEN [ok |-> FALSE, error |-> "ValueError", lines |-> lines, index |-> idx,
             results |-> results]
       ELSE AppendRows(rest, Append(lines, FormatRow(RowValues(row_data, names))),
                       DictSet(idx, row_data[id_column], FileSize(lines)),
                       names, Append(results, row_data))

\* the for loop of append: stops at the first row that raises
AppendRows(row_datas, lines, idx, names, results) ==
    IF row_datas = <<>>
    THEN [ok |-> TRUE, error |-> "", lines |-> lines, index |-> idx, results |-> results]
    ELSE AppendRow(Head(row_datas), get_next_incremental_id(idx), Tail(row_datas),
                   lines, idx, names, results)

\* append(*row_datas)
Append_(row_datas) ==
    /\ opened
    /\ \E done \in {AppendRows(row_datas, data.lines, index, fieldnames, <<>>)} :
          /\ data' = [exists |-> TRUE, lines |-> done.lines]
          /\ index' = done.index
          /\ sidecar' = IF done.ok THEN SavedIndex(done.index, fieldnames) ELSE sidecar
          /\ last_call' = [op |-> "append",
                           outcome |-> IF done.ok THEN "ok" ELSE done.error,
                           ret |-> IF done.ok THEN done.results ELSE <<>>]
    /\ UNCHANGED <<opened, fieldnames, temp, applyVars, idVars>>

RECURSIVE UpdateRows(_, _, _, _, _, _, _)
\* the for loop of batch_update over the rows not yet read; fail_row = 1 makes the
\* write of the next row fail with OSError, 0 never
UpdateRows(rows, out, idx, updated, updates_dict, names, fail_row) ==
    IF rows = <<>>
    THEN [ok |-> TRUE, error |-> "", lines |-> out, index |-> idx, ids |-> updated]
    ELSE LET row_id == Head(rows)[id_column]
             hit == row_id \in DOMAIN updates_dict
             row == IF hit THEN Overlay(Head(rows), updates_dict[row_id]) ELSE Head(rows)
             seen == IF hit THEN updated \cup {row_id} ELSE updated
         IN IF ~WriterAccepts(row, names)
            THEN [ok |-> FALSE, error |-> "ValueError", lines |-> out, index |-> idx,
                  ids |-> seen]
            ELSE IF fail_row = 1
            THEN [ok |-> FALSE, error |-> "OSError: write", lines |-> out, index |-> idx,
                  ids |-> seen]
            ELSE UpdateRows(Tail(rows), Append(out, FormatRow(RowValues(row, names))),
                            DictSet(idx, row[id_column], FileSize(out)), seen,
                            updates_dict, names,
                            IF fail_row = 0 THEN 0 ELSE fail_row - 1)

RECURSIVE DeleteRows(_, _, _, _, _, _, _)
\* the for loop of batch_delete
DeleteRows(rows, out, idx, deleted, ids_to_delete, names, fail_row) ==
    IF rows = <<>>
    THEN [ok |-> TRUE, error |-> "", lines |-> out, index |-> idx, ids |-> deleted]
    ELSE LET row_id == Head(rows)[id_column]
         IN IF row_id \in ids_to_delete
            THEN DeleteRows(Tail(rows), out, idx, deleted \cup {row_id},
                            ids_to_delete, names, fail_row)
            ELSE IF ~WriterAccepts(Head(rows), names)
            THEN [ok |-> FALSE, error |-> "ValueError", lines |-> out, index |-> idx,
                  ids |-> deleted]
            ELSE IF fail_row = 1
            THEN [ok |-> FALSE, error |-> "OSError: write", lines |-> out, index |-> idx,
                  ids |-> deleted]
            ELSE DeleteRows(Tail(rows),
                            Append(out, FormatRow(RowValues(Head(rows), names))),
                            DictSet(idx, row_id, FileSize(out)), deleted,
                            ids_to_delete, names,
                            IF fail_row = 0 THEN 0 ELSE fail_row - 1)

\* a batch_delete that leaves the deleted ids in the index
PopNone(idx, ids) == idx

RECURSIVE PopAll(_, _)
\* for row_id in deleted: self.index.pop(row_id, None)
PopAll(idx, ids) ==
    IF idx = <<>> THEN <<>>
    ELSE IF Head(idx)[1] \in ids THEN PopAll(Tail(idx), ids)
    ELSE <<Head(idx)>> \o PopAll(Tail(idx), ids)

\* the rewrite done in place: the data file itself receives the rows as written
CommitInPlace(d, orphans, done, replace_ok) ==
    [data |-> [exists |-> TRUE, lines |-> done.lines], temp |-> orphans]

\* NamedTemporaryFile(delete=False) ... os.replace(temp.name, self.path): the data
\* file changes only by the replace, which consumes the temp file; a call that
\* raises before or in the replace leaves its temp file behind
Commit(d, orphans, done, replace_ok) ==
    IF done.ok /\ replace_ok
    THEN [data |-> [exists |-> TRUE, lines |-> done.lines], temp |-> orphans]
    ELSE [data |-> d, temp |-> TRUE]

RewriteOutcome(done, replace_ok) ==
    IF ~done.ok THEN done.error
    ELSE IF ~replace_ok THEN "OSError: replace"
    ELSE "ok"

NoFailure == [row |-> 0, replace_ok |-> TRUE]

\* the ways the environment can fail a rewrite of n rows: not at all, at the
\* write of row k, or at os.replace
Failures(n) ==
    {NoFailure, [row |-> 0, replace_ok |-> FALSE]}
    \cup {[row |-> k, replace_ok |-> TRUE] : k \in 1..n}

\* batch_update(updates_dict), called as op
BatchUpdateAs(op, updates_dict, fail) ==
    IF ~data.exists
    THEN \* open(self.path) raises before a temp file is made
         /\ last_call' = [op |-> op, outcome |-> "FileNotFoundError", ret |-> {}]
         /\ UNCHANGED <<data, sidecar, opened, index, fieldnames, temp, applyVars, idVars>>
    ELSE
    \E done \in {UpdateRows(FileRows(data.lines), <<HeaderLine(fieldnames)>>, index, {},
                            updates_dict, fieldnames, fail.row)} :
    \E after \in {Commit(data, temp, done, fail.replace_ok)} :
    \E outcome \in {RewriteOutcome(done, fail.replace_ok)} :
       /\ data' = after.data
       /\ temp' = after.temp
       /\ index' = done.index
       /\ sidecar' = IF outcome = "ok" THEN SavedIndex(done.index, fieldnames)
                     ELSE sidecar
       /\ last_call' = [op |-> op, outcome |-> outcome,
                        ret |-> IF outcome = "ok" /\ op = "batch_update"
                                THEN done.ids ELSE {}]
       /\ UNCHANGED <<opened, fieldnames, applyVars, idVars>>

BatchUpdate(updates_dict, fail) ==
    /\ opened
    /\ BatchUpdateAs("batch_update", updates_dict, fail)

\* a batch_replace that hands its argument on as it is
ReplaceWithoutBlanks(updates_dict, fail) ==
    /\ opened
    /\ BatchUpdateAs("batch_replace", updates_dict, fail)

\* batch_replace(updates_dict)
BatchReplace(updates_dict, fail) ==
    /\ opened
    /\ LET empty_values == [k \in Range(fieldnames) \ {id_column} |-> EmptyStr]
       IN BatchUpdateAs("batch_replace",
                        IF DOMAIN empty_values # {}
                        THEN [k \in DOMAIN updates_dict |->
                                 Overlay(empty_values, updates_dict[k])]
                        ELSE updates_dict,
                        fail)

\* batch_delete(ids_to_delete)
BatchDelete(ids_to_delete, fail) ==
    /\ opened
    /\ IF ~data.exists
       THEN \* open(self.path) raises before a temp file is made
            /\ last_call' = [op |-> "batch_delete", outcome |-> "FileNotFoundError",
                             ret |-> {}]
            /\ UNCHANGED <<data, sidecar, index, temp>>
       ELSE
       \E done \in {DeleteRows(FileRows(data.lines), <<HeaderLine(fieldnames)>>, index,
                               {}, ids_to_delete, fieldnames, fail.row)} :
       \E after \in {Commit(data, temp, done, fail.replace_ok)} :
       \E outcome \in {RewriteOutcome(done, fail.replace_ok)} :
       \E popped \in {IF outcome = "ok" THEN PopAll(done.index, done.ids)
                       ELSE done.index} :
          /\ data' = after.data
          /\ temp' = after.temp
          /\ index' = popped
          /\ sidecar' = IF outcome = "ok" THEN SavedIndex(popped, fieldnames) ELSE sidecar
          /\ last_call' = [op |-> "batch_delete", outcome |-> outcome,
                           ret |-> IF outcome = "ok" THEN done.ids ELSE {}]
    /\ UNCHANGED <<opened, fieldnames, applyVars, idVars>>

RECURSIVE SplitCommas(_, _, _)
\* s.split(','): every comma separates, quotes mean nothing
SplitCommas(chars, cur, acc) ==
    IF chars = <<>> THEN Append(acc, cur)
    ELSE IF Head(chars) = "," THEN SplitCommas(Tail(chars), <<>>, Append(acc, cur))
    ELSE SplitCommas(Tail(chars), Append(cur, Head(chars)), acc)

Min(a, b) == IF a <= b THEN a ELSE b

\* dict(zip(names, fields)): pairs up to the shorter of the two
ZipDict(names, fields) ==
    [c \in {names[k] : k \in 1..Min(Len(names), Len(fields))} |-> fields[PosOf(names, c)]]
    @@ <<>>

\* dict(zip(self.fieldnames, line.strip().split(',')))
LineRecord(line, names) == ZipDict(names, SplitCommas(Strip(line), <<>>, <<>>))

RECURSIVE ReadRows(_, _, _, _, _)
\* list(read_many(*row_ids)) for row_ids given: the generator ends at the first id
\* the index does not have (return None); open() raises if the file is gone
ReadRows(row_ids, d, idx, names, rows) ==
    IF row_ids = <<>> THEN [ok |-> TRUE, error |-> "", rows |-> rows]
    ELSE IF ~DictHas(idx, Head(row_ids)) THEN [ok |-> TRUE, error |-> "", rows |-> rows]
    ELSE IF ~d.exists THEN [ok |-> FALSE, error |-> "FileNotFoundError", rows |-> <<>>]
    ELSE ReadRows(Tail(row_ids), d, idx, names,
                  Append(rows, LineRecord(ReadLine(d.lines, DictGet(idx, Head(row_ids))),
                                          names)))

\* for row in csv.DictReader(f): yield row
ScanRows(d) ==
    IF ~d.exists THEN [ok |-> FALSE, error |-> "FileNotFoundError", rows |-> <<>>]
    ELSE IF d.lines = <<>> THEN [ok |-> TRUE, error |-> "", rows |-> <<>>]
    ELSE [ok |-> TRUE, error |-> "", rows |-> FileRows(d.lines)]

\* list(read_many(*row_ids))
read_many(row_ids, d, idx, names) ==
    IF row_ids # <<>> THEN ReadRows(row_ids, d, idx, names, <<>>) ELSE ScanRows(d)

\* what a call leaves in last_call
Outcome(done) == IF done.ok THEN "ok" ELSE done.error

\* list(self.read_many(*row_ids))
ReadMany(row_ids) ==
    /\ opened
    /\ \E done \in {read_many(row_ids, data, index, fieldnames)} :
          last_call' = [op |-> "read_many", outcome |-> Outcome(done),
                        ret |-> done.rows, args |-> row_ids]
    /\ UNCHANGED <<data, sidecar, opened, index, fieldnames, temp, applyVars, idVars>>

\* what read_one returns for None, told apart from every record
NoRecord == [None |-> TRUE]

\* read_one(row_id): result[0] if result else None
ReadOne(row_id) ==
    /\ opened
    /\ \E done \in {read_many(<<row_id>>, data, index, fieldnames)} :
          last_call' = [op |-> "read_one", outcome |-> Outcome(done),
                        ret |-> IF done.rows # <<>> THEN done.rows[1] ELSE NoRecord,
                        args |-> row_id]
    /\ UNCHANGED <<data, sidecar, opened, index, fieldnames, temp, applyVars, idVars>>

\* all(row.get(k) == str(v) for k, v in filters.items())
Matches(row, filters) == \A k \in DOMAIN filters : Get(row, k, NoneValue) = filters[k]

\* list(self.query(**filters))
Query(filters) ==
    /\ opened
    /\ \E done \in {ScanRows(data)} :
          last_call' = [op |-> "query", outcome |-> Outcome(done),
                        ret |-> SelectSeq(done.rows, LAMBDA row : Matches(row, filters)),
                        args |-> filters]
    /\ UNCHANGED <<data, sidecar, opened, index, fieldnames, temp, applyVars, idVars>>

\* the data file is removed by other means than the store
RemoveData ==
    /\ data.exists
    /\ data' = NoFile
    /\ last_call' = NoCall
    /\ UNCHANGED <<sidecar, opened, index, fieldnames, temp, applyVars, idVars, aside>>

\* the sidecar is removed by other means than the store
RemoveSidecar ==
    /\ sidecar.exists
    /\ sidecar' = NoSidecar
    /\ last_call' = NoCall
    /\ UNCHANGED <<data, opened, index, fieldnames, temp, applyVars, idVars, aside>>

\* the sidecar is overwritten by other means than the store
DamageSidecar(how) ==
    /\ sidecar.exists
    /\ sidecar' = DamagedSidecar(how)
    /\ last_call' = NoCall
    /\ UNCHANGED <<data, opened, index, fieldnames, temp, applyVars, idVars, aside>>

-----------------------------------------------------------------------------
(* Inputs of the store *)

MaxRows == 2

MaxBatch == 2

StoreFields == <<"id", "description", "category">>

\* rows for append: with an id, without one (and with a field that needs quoting),
\* and with an id that is no integer
AppendPool ==
    { [id |-> <<"1">>, description |-> <<"a">>],
      [description |-> <<"b", ",", "c">>],
      [id |-> <<"x">>] }

AppendBatches == SeqsUpTo(AppendPool, MaxBatch) \ {<<>>}

\* arguments of batch_update and batch_replace: one column of one row, a column
\* the file does not have, and the id column itself
UpdatePool ==
    { (<<"1">> :> [description |-> <<"b", "b">>]),
      (<<"1">> :> [description |-> <<"b", "b">>]) @@ (<<"2">> :> [memo |-> <<"z">>]),
      (<<"1">> :> [id |-> <<"2">>]) }

\* arguments of batch_delete: the third names no row
DeletePool == { {<<"1">>}, {<<"2">>, <<"x">>}, {<<"7">>} }

RowCount == Len(data.lines) - 1

StoreIdle ==
    /\ data = NoFile
    /\ sidecar = NoSidecar
    /\ opened = FALSE
    /\ index = <<>>
    /\ fieldnames = <<>>
    /\ temp = FALSE
    /\ last_call = NoCall
    /\ gone = NoneDeleted
    /\ appended = <<>>

CreateAny == Create(StoreFields) /\ UNCHANGED aside

OpenAny == Open /\ UNCHANGED aside

AppendAny ==
    /\ opened
    /\ \E batch \in AppendBatches :
          /\ RowCount + Len(batch) <= MaxRows
          /\ Append_(batch)
    /\ UNCHANGED aside

BatchUpdateAny ==
    /\ opened
    /\ \E u \in UpdatePool, fail \in Failures(RowCount) : BatchUpdate(u, fail)
    /\ UNCHANGED aside

\* batch_replace does its rewrite by calling batch_update; the I/O errors of the
\* rewrite are explored there
BatchReplaceAny ==
    /\ opened
    /\ \E u \in UpdatePool : BatchReplace(u, NoFailure)
    /\ UNCHANGED aside

BatchDeleteAny ==
    /\ opened
    /\ \E ids \in DeletePool, fail \in Failures(RowCount) : BatchDelete(ids, fail)
    /\ UNCHANGED aside

\* an append whose second row has a column the file does not have: DictWriter
\* raises on it after the first row went to the file
RejectedBatches ==
    { <<[id |-> <<"1">>, description |-> <<"a">>], [memo |-> <<"z">>]>> }

AppendRejectedAny ==
    /\ opened
    /\ \E batch \in RejectedBatches :
          /\ RowCount + Len(batch) <= MaxRows + 1
          /\ Append_(batch)
    /\ UNCHANGED aside

NextStore ==
    \/ CreateAny
    \/ OpenAny
    \/ AppendAny
    \/ BatchUpdateAny
    \/ BatchReplaceAny
    \/ BatchDeleteAny

\* ids asked of read_one and read_many: 9 is never in a store
ReadIds == {<<"1">>, <<"2">>, <<"9">>}

ReadRequests == SeqsUpTo(ReadIds, MaxBatch)

ReadManyAny ==
    /\ opened
    /\ \E row_ids \in ReadRequests : ReadMany(row_ids)
    /\ UNCHANGED aside

ReadOneAny ==
    /\ opened
    /\ \E row_id \in ReadIds : ReadOne(row_id)
    /\ UNCHANGED aside

-----------------------------------------------------------------------------
(* The store under restricted use *)

\* the call just made returned normally
Succeeds == last_call'.outcome = "ok"

CreateOk == CreateAny /\ Succeeds

OpenOk == OpenAny /\ Succeeds

AppendOk == AppendAny /\ Succeeds

BatchUpdateOk == BatchUpdateAny /\ Succeeds

BatchDeleteOk == BatchDeleteAny /\ Succeeds

\* only calls that succeed, of create, open, append, batch_update, batch_delete
NextSuccessful ==
    \/ CreateOk
    \/ OpenOk
    \/ AppendOk
    \/ BatchUpdateOk
    \/ BatchDeleteOk

\* any call, failing or not, of create, open, append, batch_update, batch_delete
NextIndexed ==
    \/ CreateAny
    \/ OpenAny
    \/ AppendAny
    \/ BatchUpdateAny
    \/ BatchDeleteAny

\* a store that is appended to, deleted from and reopened, appends failing or not
NextAppend ==
    \/ CreateAny
    \/ OpenAny
    \/ AppendAny
    \/ AppendRejectedAny
    \/ BatchDeleteOk

\* the ids of rows, in their order
IdsOf(rows) == [k \in 1..Len(rows) |-> rows[k][id_column]]

\* records for the round trip: a plain one, fields with a comma, with a quote and
\* with a blank, and columns left out
RoundTripPool ==
    { [id |-> <<"1">>, description |-> <<"a">>],
      [id |-> <<"2">>, description |-> <<"b", ",", "c">>],
      [id |-> <<"3">>, description |-> <<"q", "\"">>],
      [id |-> <<"x">>, category |-> <<" ">>] }

MaxRecords == 3

\* an append of records whose ids differ from each other and from those appended
\* before, remembered
AppendThenRecord ==
    /\ opened
    /\ \E batch \in SeqsUpTo(RoundTripPool, MaxBatch) \ {<<>>} :
          /\ Len(appended) + Len(batch) <= MaxRecords
          /\ \A j, k \in 1..Len(batch) : batch[j].id = batch[k].id => j = k
          /\ \A k \in 1..Len(batch) : batch[k].id \notin Range(IdsOf(appended))
          /\ Append_(batch)
          /\ appended' = appended \o batch
    /\ UNCHANGED <<gone, txVars>>

\* list(read_many()): the scan of the whole store
ScanAny ==
    /\ opened
    /\ ReadMany(<<>>)
    /\ UNCHANGED aside

\* a freshly created store that is appended to and scanned
NextRoundTrip ==
    \/ CreateOk
    \/ OpenOk
    \/ AppendThenRecord
    \/ ScanAny

DamageSidecarAny == \E how \in {"unparseable", "keyless"} : DamageSidecar(how)

\* a store whose sidecar is lost or damaged between appends, reads and openings
NextHeal ==
    \/ CreateOk
    \/ OpenAny
    \/ AppendOk
    \/ ReadOneAny
    \/ RemoveSidecar
    \/ DamageSidecarAny

\* filters of query: none, and one column
QueryFilters == { <<>>, [description |-> <<"a">>] }

QueryAny ==
    /\ opened
    /\ \E filters \in QueryFilters : Query(filters)
    /\ UNCHANGED aside

\* the data file is such as the store writes it: its first line is the header
HasHeader == data.exists => (data.lines # <<>> /\ data.lines[1] = HeaderLine(StoreFields))

\* the store is created where there is none, before any LargeCSV object is made
CreateFirst == ~opened /\ ~sidecar.exists /\ ~data.exists /\ CreateOk

\* the store is opened or appended to while it has its data file
OpenPresent == data.exists /\ HasHeader /\ OpenAny

\* append(row_data) of a single row
AppendOne ==
    /\ opened
    /\ RowCount < MaxRows
    /\ \E row_data \in AppendPool : Append_(<<row_data>>)
    /\ UNCHANGED aside

AppendPresent == data.exists /\ HasHeader /\ Len(index) < MaxRows /\ AppendOne

\* the calls made while there is no data file
OpenMissing == ~data.exists /\ OpenAny

ReadOneMissing == ~data.exists /\ ReadOneAny

ReadManyMissing == ~data.exists /\ ReadManyAny

QueryMissing == ~data.exists /\ QueryAny

AppendMissing == ~data.exists /\ Len(index) < MaxRows /\ AppendOne

BatchUpdateMissing == ~data.exists /\ BatchUpdateAny

BatchDeleteMissing == ~data.exists /\ BatchDeleteAny

\* a store that is created and appended to and whose data file is then lost; what
\* follows an append that made a new data file without a header is not explored
\* beyond the removal of that file
NextMissing ==
    \/ CreateFirst
    \/ OpenPresent
    \/ AppendPresent
    \/ RemoveData
    \/ RemoveSidecar
    \/ OpenMissing
    \/ ReadOneMissing
    \/ ReadManyMissing
    \/ QueryMissing
    \/ AppendMissing
    \/ BatchUpdateMissing
    \/ BatchDeleteMissing

\* a store that is appended to, deleted from and read, every call succeeding
NextRead ==
    \/ CreateOk
    \/ OpenOk
    \/ AppendOk
    \/ BatchDeleteOk
    \/ ReadManyAny
    \/ ReadOneAny

\* a successful batch_delete, remembered: the ids it returns are gone
DeleteThenRemember ==
    /\ opened
    /\ \E ids \in DeletePool : BatchDelete(ids, NoFailure)
    /\ Succeeds
    /\ gone' = [since_append |-> gone.since_append \cup last_call'.ret,
                since_write |-> gone.since_write \cup last_call'.ret]
    /\ UNCHANGED <<appended, txVars>>

\* a successful append: the ids of the rows it wrote are no longer gone
AppendThenForget ==
    /\ opened
    /\ \E batch \in AppendBatches :
          /\ RowCount + Len(batch) <= MaxRows
          /\ Append_(batch)
    /\ Succeeds
    /\ gone' = [since_append |-> gone.since_append \ Range(IdsOf(last_call'.ret)),
                since_write |-> gone.since_write \ Range(IdsOf(last_call'.ret))]
    /\ UNCHANGED <<appended, txVars>>

\* a successful batch_update: the ids of the rows it wrote count as written again
UpdateThenForget ==
    /\ opened
    /\ \E u \in UpdatePool : BatchUpdate(u, NoFailure)
    /\ Succeeds
    /\ gone' = [gone EXCEPT !.since_write = @ \ Range(IdsOf(FileRows(data'.lines)))]
    /\ UNCHANGED <<appended, txVars>>

\* a store that is appended to, updated, deleted from and read, every call succeeding
NextDeleted ==
    \/ CreateOk
    \/ OpenOk
    \/ AppendThenForget
    \/ UpdateThenForget
    \/ DeleteThenRemember
    \/ ReadOneAny

-----------------------------------------------------------------------------
(* Properties of the store *)

FileIds == IF data.exists /\ data.lines # <<>> THEN IdsOf(FileRows(data.lines)) ELSE <<>>

\* the byte offset at which line k of the file starts
LineStart(lines, k) == FileSize(SubSeq(lines, 1, k - 1))

\* two indexes are the same id -> offset mapping, whatever their insertion order
SameMapping(idx1, idx2) == Range(idx1) = Range(idx2)

\* idx has an entry exactly for the ids of the file, each at the start of a line
\* that holds a row of that id
TracksFile(idx, ids) ==
    /\ DictKeys(idx) = Range(ids)
    /\ \A e \in Range(idx) :
          \E k \in 1..Len(ids) : ids[k] = e[1] /\ LineStart(data.lines, k + 1) = e[2]

IsRewrite(op) == op \in {"batch_update", "batch_delete"}

(* C7: after any sequence of create, append, batch_update, batch_replace and
   batch_delete calls, no two rows of the data file have the same id. *)
C7_UniqueIds ==
    \A j, k \in 1..Len(FileIds) : FileIds[j] = FileIds[k] => j = k

(* C8: after any sequence of successful append, batch_update and batch_delete
   calls on a store, the index kept in memory and the index saved in the sidecar
   are the same id -> offset mapping as the one rebuild_index computes from the
   data file. *)
C8_IndexMatchesRebuild ==
    opened =>
        /\ SameMapping(index, rebuild_index(data.lines).index)
        /\ sidecar.exists
        /\ SameMapping(sidecar.index, rebuild_index(data.lines).index)

(* C9: in every state reached by append, batch_update and batch_delete calls,
   failing ones included, the index in memory and the index in the sidecar have
   an entry exactly for the ids present in the data file, each pointing at the
   start of a line of that id. *)
C9_IndexInLockStep ==
    opened =>
        /\ TracksFile(index, FileIds)
        /\ sidecar.exists
        /\ TracksFile(sidecar.index, FileIds)

(* C10: a batch_update or batch_delete call that stops before or in its final
   replace step (a row that cannot be written, a write error, a failing
   os.replace) leaves the data file with exactly the content it had before the
   call. *)
C10_FailedRewriteKeepsData ==
    [][(IsRewrite(last_call'.op) /\ last_call'.outcome # "ok") => data' = data]_vars

\* C10's case: a rewrite of a two-row file has failed at a write, after the header
\* and possibly a row went to the temp file, which is left behind
C10_Witness ==
    /\ IsRewrite(last_call.op)
    /\ last_call.outcome = "OSError: write"
    /\ RowCount = 2
    /\ temp

\* the requested ids the index has, in request order
Indexed(row_ids) == SelectSeq(row_ids, LAMBDA r : DictHas(index, r))

(* C11: read_many(id1..idk) yields, in request order, one record for each requested
   id that is in the index and nothing for the others, an absent id not stopping
   the ids after it; read_one of an absent id returns None. *)
C11_ReadManySkipsAbsent ==
    /\ (last_call.op = "read_many" /\ last_call.args # <<>> /\ last_call.outcome = "ok")
       => /\ Len(last_call.ret) = Len(Indexed(last_call.args))
          /\ \A k \in 1..Len(last_call.ret) :
                last_call.ret[k][id_column] = Indexed(last_call.args)[k]
    /\ (last_call.op = "read_one" /\ ~DictHas(index, last_call.args))
       => last_call.ret = NoRecord

\* the rows of rows whose id is not in ids
Without(rows, ids) == SelectSeq(rows, LAMBDA r : r[id_column] \notin ids)

\* a step that is a successful batch_delete(ids) removes exactly the rows with an
\* id in ids and returns the ids it removed
DeleteRemovesExactly ==
    \A ids \in DeletePool :
       (BatchDelete(ids, NoFailure) /\ Succeeds)
       => /\ FileRows(data'.lines) = Without(FileRows(data.lines), ids)
          /\ last_call'.ret = ids \cap Range(FileIds)

\* a step that is read_one of an id in ids answers None; one that is a successful
\* batch_update does not match an id in ids, and changes nothing if it names only
\* such ids
StaysDeleted(ids) ==
    /\ (last_call'.op = "read_one" /\ last_call'.args \in ids)
       => last_call'.ret = NoRecord
    /\ \A u \in UpdatePool :
          (BatchUpdate(u, NoFailure) /\ Succeeds)
          => /\ last_call'.ret \cap ids = {}
             /\ DOMAIN u \subseteq ids => data' = data

(* C12 as stated: batch_delete(ids) removes exactly the rows whose id is in ids and
   returns the ids removed; afterwards, until an append writes a row of such an id
   again, read_one of a removed id returns None and a batch_update naming it
   neither matches it nor changes a row. *)
C12_DeletedUntilAppended ==
    [][DeleteRemovesExactly /\ StaysDeleted(gone.since_append)]_vars

(* C12, amended: the same, until an append or a batch_update (one that sets the id
   column) writes a row of such an id again. *)
C12_DeletedUntilWritten ==
    [][DeleteRemovesExactly /\ StaysDeleted(gone.since_write)]_vars

\* C12's case: read_one has just answered None for an id that batch_delete removed
\* from a file that still has a row
C12_Witness ==
    /\ last_call.op = "read_one"
    /\ last_call.args \in gone.since_write
    /\ last_call.ret = NoRecord
    /\ RowCount >= 1

\* row after is row before with exactly the columns of given set as given
OnlyGivenChanged(before, after, given) ==
    /\ DOMAIN after = DOMAIN before
    /\ \A c \in DOMAIN before :
          after[c] = IF c \in DOMAIN given THEN given[c] ELSE before[c]

\* the rows of the file after batch_update(u) against those before it
UpdatedAsGiven(before, after, u) ==
    /\ Len(after) = Len(before)
    /\ \A k \in 1..Len(before) :
          IF before[k][id_column] \in DOMAIN u
          THEN OnlyGivenChanged(before[k], after[k], u[before[k][id_column]])
          ELSE after[k] = before[k]

(* C13: a batch_update(updates_dict) that returns changes, in each row whose id is
   a key of updates_dict, only the columns given for that id; the other columns
   of those rows and the rows of other ids are as before; it returns exactly the
   keys that matched a row of the file. *)
C13_UpdateTouchesOnlyGiven ==
    [][\A u \in UpdatePool :
          (BatchUpdate(u, NoFailure) /\ Succeeds)
          => /\ UpdatedAsGiven(FileRows(data.lines), FileRows(data'.lines), u)
             /\ last_call'.ret = DOMAIN u \cap Range(FileIds)]_vars

\* C13's case: a batch_update of a two-row file has matched a row and returned,
\* the other row having a field that needs quoting
C13_Witness ==
    /\ last_call.op = "batch_update"
    /\ last_call.outcome = "ok"
    /\ last_call.ret # {}
    /\ RowCount = 2
    /\ \E k \in 1..2 : /\ FileIds[k] \notin last_call.ret
                        /\ FileRows(data.lines)[k]["description"] = <<"b", ",", "c">>

\* the integers that the ids of existing denote
IntegerIds(existing) == {ParseInt(x).val : x \in {y \in existing : ParseInt(y).ok}}

\* the id the claim gives a record without one, the store holding the ids existing
FreshId(existing) ==
    IF existing = {} THEN <<"1">> ELSE IntToStr(MaxOf(IntegerIds(existing) \cup {0}) + 1)

RECURSIVE ClaimedIds(_, _)
\* the ids of the records of batch once appended to a store holding existing
ClaimedIds(batch, existing) ==
    IF batch = <<>> THEN <<>>
    ELSE LET given == Get(Head(batch), id_column, EmptyStr)
             id == IF given # EmptyStr THEN given ELSE FreshId(existing)
         IN <<id>> \o ClaimedIds(Tail(batch), existing \cup {id})

\* the positions of batch whose record lacks an id
Lacking(batch) == {k \in 1..Len(batch) : Get(batch[k], id_column, EmptyStr) = EmptyStr}

(* C14: an append that returns gives every record that lacks an id a fresh one: "1"
   when the store is empty, else max(existing integer ids)+1, the ids assigned or
   appended earlier in the batch counting as existing; the ids so assigned are
   pairwise distinct and differ from every id already in the store, and a record
   that carries an id keeps it. *)
C14_AppendAssignsFreshIds ==
    [][\A batch \in AppendBatches :
          (Append_(batch) /\ Succeeds)
          => /\ IdsOf(last_call'.ret) = ClaimedIds(batch, Range(FileIds))
             /\ \A j \in Lacking(batch) :
                   /\ last_call'.ret[j][id_column] \notin Range(FileIds)
                   /\ \A k \in Lacking(batch) :
                         last_call'.ret[j][id_column] = last_call'.ret[k][id_column]
                         => j = k]_vars

\* the record as the claim has it read back: a column it leaves out is ''
ReadBack(record) == [c \in Range(StoreFields) |-> Get(record, c, EmptyStr)]

(* C15: records with distinct ids and columns of the header, appended in one or
   several calls to a freshly created store, are what a scan of the whole store
   yields: as many records, in append order, each equal to the one appended with
   the columns it leaves out read back as ''. *)
C15_AppendScanRoundTrip ==
    (last_call.op = "read_many" /\ last_call.args = <<>>)
    => /\ last_call.outcome = "ok"
       /\ Len(last_call.ret) = Len(appended)
       /\ \A k \in 1..Len(appended) : last_call.ret[k] = ReadBack(appended[k])

\* C15's case: a scan after three records went in, one of them in a call of its
\* own, among them a field that had to be quoted
C15_Witness ==
    /\ last_call.op = "read_many"
    /\ last_call.args = <<>>
    /\ Len(appended) = MaxRecords
    /\ \E k \in 1..Len(appended) : NeedsQuote(Get(appended[k], "description", EmptyStr))

\* the sidecar is missing or is not what _save_index writes
SidecarUnusable(sc) == ~sc.exists \/ sc.json # "ok"

(* C19: opening a store whose sidecar is missing, unparseable or without the keys
   index and fieldnames succeeds all the same: the store has the index and the
   fieldnames rebuild_index derives from the data file, and the sidecar is
   rewritten with them. *)
C19_OpenHealsSidecar ==
    [][(last_call'.op = "open" /\ SidecarUnusable(sidecar) /\ data.exists)
       => \E built \in {rebuild_index(data.lines)} :
             /\ last_call'.outcome = "ok"
             /\ index' = built.index
             /\ fieldnames' = built.fieldnames
             /\ sidecar' = SavedIndex(built.index, built.fieldnames)]_vars

\* the store calls other than create
StoreCalls ==
    {"open", "read_one", "read_many", "query", "append", "batch_update", "batch_delete"}

(* C20: a store call other than create that finds no data file fails with an
   error and does not create the data file, whether a sidecar exists or not. *)
C20_MissingDataFileFails ==
    [][(~data.exists /\ last_call'.op \in StoreCalls)
       => (last_call'.outcome # "ok" /\ ~data'.exists)]_vars

-----------------------------------------------------------------------------
(* safe_file_update_context (utils.py) *)

\* a path with no file
Absent == [exists |-> FALSE, content |-> ""]

FileOf(c) == [exists |-> TRUE, content |-> c]

\* what the files hold: the target before, and what the caller writes
FileContents == {"v1", "v2"}

NoContext ==
    [pc |-> "idle", keep_backup |-> FALSE, dry_run |-> FALSE,
     entered |-> [original |-> Absent, backup |-> Absent], work |-> "", raised |-> ""]

TxIdle ==
    /\ original_path = Absent
    /\ temp_path = Absent
    /\ backup_path = Absent
    /\ ctx = NoContext

\* raise RuntimeError(f'Failed to update {original_path}: {e}') from e
WrappedError == "RuntimeError: Failed to update original_path"

\* NamedTemporaryFile(delete=False), then copy2 if original_path.is_file()
TempOnEntry(original) == IF original.exists THEN FileOf(original.content) ELSE FileOf("")

\* with safe_file_update_context(original_path, keep_backup=.., dry_run=..) as
\* temp_path: the code up to the yield
Enter(keep_backup, dry_run) ==
    /\ ctx.pc # "body"
    /\ temp_path' = TempOnEntry(original_path)
    /\ ctx' = [pc |-> "body", keep_backup |-> keep_backup, dry_run |-> dry_run,
               entered |-> [original |-> original_path, backup |-> backup_path],
               work |-> "", raised |-> ""]
    /\ UNCHANGED <<original_path, backup_path, applyVars, storeVars, idVars>>

\* the caller's work writes the temp file
WriteTemp(c) ==
    /\ ctx.pc = "body"
    /\ temp_path' = FileOf(c)
    /\ UNCHANGED <<original_path, backup_path, ctx, applyVars, storeVars, idVars>>

\* except Exception: temp_path.unlink(missing_ok=True); raise RuntimeError(...)
Caught(original, backup) ==
    [original |-> original, temp |-> Absent, backup |-> backup, raised |-> WrappedError]

\* an exception that is no Exception passes the except clause by
Uncaught(original, temp_file, backup, exc) ==
    [original |-> original, temp |-> temp_file, backup |-> backup, raised |-> exc]

\* the backup and the replace: copy2(original_path, backup_path) raises
\* FileNotFoundError inside the try when there is no original
CommitTemp(keep_backup, original, temp_file, backup) ==
    IF keep_backup /\ ~original.exists THEN Caught(original, backup)
    ELSE [original |-> temp_file, temp |-> Absent,
          backup |-> IF keep_backup THEN original ELSE backup, raised |-> ""]

\* an exit that replaces the original whatever dry_run says
CommitAnyway(keep_backup, dry_run, original, temp_file, backup) ==
    CommitTemp(keep_backup, original, temp_file, backup)

\* the code after the yield when the caller's work returned
OnSuccess(keep_backup, dry_run, original, temp_file, backup) ==
    IF dry_run
    THEN [original |-> original, temp |-> temp_file, backup |-> backup, raised |-> ""]
    ELSE CommitTemp(keep_backup, original, temp_file, backup)

\* how the caller's work ends: it returns, raises an Exception, or raises
\* SystemExit, as apply_changeset does by sys.exit when it aborts a merge
WorkEnds == {"returns", "Exception", "SystemExit"}

AfterWork(how, keep_backup, dry_run, original, temp_file, backup) ==
    CASE how = "returns" -> OnSuccess(keep_backup, dry_run, original, temp_file, backup)
      [] how = "Exception" -> Caught(original, backup)
      [] how = "SystemExit" -> Uncaught(original, temp_file, backup, "SystemExit")

\* the with block ends as how says: the code from the yield to the end
Finish(how) ==
    /\ ctx.pc = "body"
    /\ \E after \in {AfterWork(how, ctx.keep_backup, ctx.dry_run, original_path,
                                temp_path, backup_path)} :
          /\ original_path' = after.original
          /\ temp_path' = after.temp
          /\ backup_path' = after.backup
          /\ ctx' = [ctx EXCEPT !.pc = IF after.raised = "" THEN "done" ELSE "raised",
                                !.work = how, !.raised = after.raised]
    /\ UNCHANGED <<applyVars, storeVars, idVars>>

\* outside a transaction the target is written by other means
WriteOriginal(c) ==
    /\ ctx.pc # "body"
    /\ original_path' = FileOf(c)
    /\ UNCHANGED <<temp_path, backup_path, ctx, applyVars, storeVars, idVars>>

EnterAny == \E keep_backup, dry_run \in BOOLEAN : Enter(keep_backup, dry_run)

WriteTempAny == \E c \in FileContents : WriteTemp(c)

WorkReturns == Finish("returns")

WorkRaises == Finish("Exception")

WorkExits == Finish("SystemExit")

WriteOriginalAny == \E c \in FileContents : WriteOriginal(c)

NextTx ==
    \/ EnterAny
    \/ WriteTempAny
    \/ WorkReturns
    \/ WorkRaises
    \/ WorkExits
    \/ WriteOriginalAny

\* the step ends a with block
Exits == ctx.pc = "body" /\ ctx'.pc # "body"

(* C16: when the caller's work returns and dry_run is off, the exit leaves in the
   target what the temp file held, whether or not the target existed before and
   whether or not a backup was asked for; with keep_backup the .bak file holds
   what the target held on entry. *)
C16_SuccessInstallsTemp ==
    [][(Exits /\ ctx'.work = "returns" /\ ~ctx.dry_run)
       => /\ original_path' = temp_path
          /\ (ctx.keep_backup /\ ctx.entered.original.exists)
             => backup_path' = ctx.entered.original]_vars

(* C17: when the caller's work fails, by an Exception or by the SystemExit of an
   aborted merge, the target is as it was on entry, the temp file is deleted and
   the caller receives the wrapped error that names the target path. *)
C17_FailureRestoresAndWraps ==
    [][(Exits /\ ctx'.work \in {"Exception", "SystemExit"})
       => /\ original_path' = ctx.entered.original
          /\ ~temp_path'.exists
          /\ ctx'.raised = WrappedError]_vars

(* C18: with dry_run the target never changes: from entry to exit, whatever the
   caller writes to the temp file and however its work ends, the target exists
   or not and holds what it did on entry, and the .bak file is as on entry. *)
C18_DryRunKeepsTarget ==
    [][(ctx'.dry_run /\ (ctx.pc = "body" \/ ctx'.pc = "body"))
       => /\ original_path' = ctx'.entered.original
          /\ backup_path' = ctx'.entered.backup]_vars

\* C18's case: a dry run whose work wrote the temp file something else than the
\* target holds has returned, a backup having been asked for
C18_Witness ==
    /\ ctx.pc = "done"
    /\ ctx.dry_run
    /\ ctx.keep_backup
    /\ ctx.work = "returns"
    /\ original_path.exists
    /\ temp_path.exists
    /\ temp_path.content # original_path.content

-----------------------------------------------------------------------------
(* apply_changeset applied again to its own result *)

\* add rows; the first two agree on the four trimmed values of stable_id
AddPool ==
    { [type |-> sAdd, id |-> <<"7">>, date |-> <<"d">>, description |-> <<" ", "c">>,
       amount |-> <<"5">>, account |-> <<"k">>, notes |-> <<"n">>],
      [type |-> sAdd, date |-> <<"d">>, description |-> <<"c">>,
       amount |-> <<"5">>, account |-> <<"k", " ">>, category |-> <<"g">>],
      [type |-> sAdd, id |-> <<>>, amount |-> <<"7">>],
      [type |-> sAdd, date |-> <<"d">>, description |-> <<"x">>,
       amount |-> <<"5">>, account |-> <<"k">>] }

AddChangesets == SeqsUpTo(AddPool, MaxOps) \ {<<>>}

CallAdds ==
    /\ pc = "idle"
    /\ \E base \in Bases \ {<<>>}, cs \in AddChangesets : Call(base, cs, FALSE)

\* rows, fields = apply_changeset(base, cs); apply_changeset(rows, cs)
CallAgain ==
    /\ pc = "returned"
    /\ primary_rows' = [k \in 1..Len(result[1]) |-> k]
    /\ primary_at_call' = result[1]
    /\ heap' = MergedInit(result[1]).heap
    /\ merged' = MergedInit(result[1]).merged
    /\ split_groups' = <<>>
    /\ i' = 1
    /\ result' = <<>>
    /\ stderr' = <<>>
    /\ pc' = "rows"
    /\ exit_msg' = ""
    /\ all_fields' = DOMAIN result[1][1]
    /\ UNCHANGED <<changeset, skip_dangling, notApply>>

NextReapply ==
    \/ CallAdds
    \/ CallAgain
    \/ DoAdd
    \/ Return

IdSet(rows) == {rows[k]["id"] : k \in 1..Len(rows)}

\* the call was made on the rows an earlier call returned
Reapplied == primary_at_call \notin Bases

\* C21: when a changeset of adds is applied to the rows that applying it had
\* returned, the call returns the same set of ids and the same number of
\* records as it was given.
C21_ReappliedAddsKeepIds ==
    pc = "returned" /\ Reapplied
    => /\ IdSet(result[1]) = IdSet(primary_at_call)
       /\ Len(result[1]) = Len(primary_at_call)

\* C21 witness: a changeset of three adds, two of them with the same four
\* values, was applied to the three records it had produced from base A plus
\* two added ones, and returned.
C21_Witness ==
    /\ pc = "returned"
    /\ Reapplied
    /\ Len(changeset) = 3
    /\ Len(primary_at_call) = Len(BaseA) + 2
    /\ Len(result[1]) = Len(BaseA) + 2

-----------------------------------------------------------------------------
(* util.stable_id on pairs of rows *)

Spaced == {<<>>, <<" ">>, <<"\t">>}

\* the values a column takes: a text with whitespace around it, or nothing
Padded(text) == {l \o text \o r : l \in {<<>>, <<" ">>}, r \in Spaced} \cup {<<>>}

\* rows as csv.DictReader gives them, with and without the optional columns
IdRows ==
    { [id |-> id, date |-> date, description |-> description, amount |-> <<"5">>,
       account |-> account, category |-> category] :
        id \in {<<"1">>, <<"2">>}, date \in Padded(<<"d">>),
        description \in {<<"a">>, <<"a", " ">>, <<"b">>},
        account \in {<<>>, <<" ">>}, category \in {<<>>, <<"g">>} }
    \cup { [date |-> date, description |-> description, amount |-> amount,
            notes |-> <<"n">>] :
             date \in Padded(<<"d">>), description \in {<<"a">>, <<"b">>},
             amount \in {<<"5">>, <<" ", "5">>} }

HashIdle == hashed = [a |-> <<>>, b |-> <<>>, id_a |-> <<>>, id_b |-> <<>>]

\* stable_id(a); stable_id(b)
HashPair(a, b) ==
    /\ hashed' = [a |-> a, b |-> b, id_a |-> stable_id(a), id_b |-> stable_id(b)]
    /\ UNCHANGED <<applyVars, storeVars, txVars>>

HashAny == HashIdle /\ \E a, b \in IdRows : HashPair(a, b)

NextHash == HashAny

\* the four values the id is said to depend on, trimmed
Trimmed(row) ==
    [c \in {"date", "description", "amount", "account"} |->
        Strip(IF c \in DOMAIN row THEN row[c] ELSE EmptyStr)]

\* C22: two rows that agree on the trimmed date, description, amount and account
\* get the same id from stable_id, whatever their other columns hold and
\* whatever whitespace surrounds the four values.
C22_IdFromTrimmedFour ==
    hashed.a # <<>> /\ Trimmed(hashed.a) = Trimmed(hashed.b)
    => hashed.id_a = hashed.id_b

\* C22 witness: stable_id gave one id to two rows that differ in id, category
\* and notes columns and in the whitespace around date and description.
C22_Witness ==
    /\ hashed.a # <<>>
    /\ hashed.id_a = hashed.id_b
    /\ DOMAIN hashed.a # DOMAIN hashed.b
    /\ hashed.a["date"] # hashed.b["date"]
    /\ hashed.a["description"] # hashed.b["description"]
    /\ hashed.a["amount"] # hashed.b["amount"]

-----------------------------------------------------------------------------
(* Frame of update and add in apply_changeset *)

\* an update row whose id is in the working set when it is processed
UpdatePresent ==
    /\ InLoop
    /\ RowAction(Row) = sUpdate
    /\ DictHas(merged, RowId(Row))

\* the columns an operation row gives with a non-empty value
GivenNonEmpty(row) == {c \in DOMAIN row \ {"id", "type"} : row[c] # EmptyStr}

\* the records of the working set other than the one stored at address a
OthersKept(a) ==
    \A k \in 1..Len(merged) : merged[k][2] # a => heap'[merged[k][2]] = heap[merged[k][2]]

\* C23: an update of an id present in the working set sets exactly the columns
\* given with a non-empty value; every other column of the record, its id
\* included, keeps its value, and no other record of the working set changes.
C23_UpdateSetsOnlyGiven ==
    [][UpdatePresent
       => LET a == DictGet(merged, RowId(Row))
              given == GivenNonEmpty(Row)
          IN /\ merged' = merged
             /\ DOMAIN heap'[a] = DOMAIN heap[a] \cup given
             /\ \A c \in given : heap'[a][c] = Row[c]
             /\ \A c \in DOMAIN heap[a] \ given : heap'[a][c] = heap[a][c]
             /\ heap'[a]["id"] = heap[a]["id"]
             /\ OthersKept(a)]_vars

\* C23 witness: Update(2, category g, amount empty) has just been processed on
\* base A: record 2 has the new category and its old amount.
C23_Witness ==
    /\ pc = "rows"
    /\ i > 1
    /\ primary_at_call = BaseA
    /\ RowAction(changeset[i - 1]) = sUpdate
    /\ RowId(changeset[i - 1]) = <<"2">>
    /\ changeset[i - 1]["amount"] = EmptyStr
    /\ DictHas(merged, <<"2">>)
    /\ heap[DictGet(merged, <<"2">>)] = [BaseA[2] EXCEPT !["category"] = <<"g">>]

-----------------------------------------------------------------------------
(* batch_replace *)

\* arguments of batch_replace: those of batch_update, and ones that give the
\* category only, for one row and for two
ReplacePool ==
    UpdatePool
    \cup { (<<"1">> :> [category |-> <<"g">>]),
           (<<"1">> :> [category |-> <<"g", " ">>]) @@
           (<<"2">> :> [description |-> <<"x", ",", "y">>, category |-> <<>>]) }

BatchReplaceOk ==
    /\ opened
    /\ \E u \in ReplacePool : BatchReplace(u, NoFailure)
    /\ Succeeds
    /\ UNCHANGED aside

\* successful calls of create, open, append, batch_update and batch_replace
NextReplace ==
    \/ CreateOk
    \/ OpenOk
    \/ AppendOk
    \/ BatchUpdateOk
    \/ BatchReplaceOk

\* no field update of u names the id column
IdNotGiven(u) == \A k \in DOMAIN u : id_column \notin DOMAIN u[k]

\* row before with the columns of given as given, its id kept, the rest empty
Replaced(before, given) ==
    [c \in DOMAIN before |->
        IF c = id_column THEN before[c]
        ELSE IF c \in DOMAIN given THEN given[c] ELSE EmptyStr]

\* the rows of the file after batch_replace(u) against those before it
ReplacedAsGiven(before, after, u) ==
    /\ Len(after) = Len(before)
    /\ \A k \in 1..Len(before) :
          after[k] = IF before[k][id_column] \in DOMAIN u
                     THEN Replaced(before[k], u[before[k][id_column]])
                     ELSE before[k]

(* C24: a batch_replace(updates_dict) that returns, its field values being for
   columns other than the id, leaves each row whose id is a key holding the
   given values, the empty string in every other column but the id, and its id;
   every other row of the file is as before. *)
C24_ReplaceBlanksTheRest ==
    [][\A u \in ReplacePool :
          (BatchReplace(u, NoFailure) /\ Succeeds /\ IdNotGiven(u))
          => ReplacedAsGiven(FileRows(data.lines), FileRows(data'.lines), u)]_vars

\* C24 witness: batch_replace({'1': {'category': 'g'}}) has returned on a file of
\* two rows: row 1 has lost its description, the other row still has 'b,c'.
C24_Witness ==
    /\ last_call.op = "batch_replace"
    /\ last_call.outcome = "ok"
    /\ RowCount = 2
    /\ \E j, k \in 1..2 :
          /\ FileRows(data.lines)[j] =
                [id |-> <<"1">>, description |-> <<>>, category |-> <<"g">>]
          /\ FileRows(data.lines)[k]["description"] = <<"b", ",", "c">>

-----------------------------------------------------------------------------
(* Order of the operations of a changeset *)

\* the loop over the changeset has ended (line 32), split groups may be pending
LoopDone == pc = "rows" /\ i > Len(changeset)

\* the positions of the update rows for id that give an amount
AmountUpdates(id) ==
    {k \in 1..Len(changeset) :
        /\ RowAction(changeset[k]) = sUpdate
        /\ RowId(changeset[k]) = id
        /\ "amount" \in GivenNonEmpty(changeset[k])}

\* a delete row for id stands somewhere in the changeset
DeletedInInput(id) ==
    \E k \in 1..Len(changeset) :
        RowAction(changeset[k]) = sDelete /\ RowId(changeset[k]) = id

\* C25: the rows of the changeset are processed one after the other in input
\* order and no split group is taken up before the last of them; when a group
\* is taken up, the amount of its record is the one given by the last update of
\* that id in the changeset, and a delete of its id anywhere in the changeset
\* has made the group dangling.
C25_SplitsAfterAllRows ==
    [][/\ (pc = "rows" /\ i <= Len(changeset) /\ pc' = "rows")
          => i' = i + 1 /\ Len(split_groups') >= Len(split_groups)
       /\ (pc = "rows" /\ Len(split_groups') < Len(split_groups))
          => i > Len(changeset) /\ i' = i
       /\ (LoopDone /\ split_groups # <<>>)
          => /\ DeletedInInput(Group[1]) => DanglingGroup /\ merged' = merged
             /\ (DictHas(merged, Group[1]) /\ AmountUpdates(Group[1]) # {})
                => GroupOriginal["amount"] =
                      changeset[MaxOf(AmountUpdates(Group[1]))]["amount"]]_vars

\* C25 witness: [Split(1, 4), Split(1, 5), Update(1, amount 9)] on base A, whose
\* record 1 has amount 10, has returned four records: the parts were checked
\* against the updated amount.
C25_Witness ==
    /\ pc = "returned"
    /\ primary_at_call = BaseA
    /\ Len(changeset) = 3
    /\ RowAction(changeset[1]) = sSplit /\ changeset[1]["amount"] = <<"4">>
    /\ RowAction(changeset[2]) = sSplit /\ changeset[2]["amount"] = <<"5">>
    /\ RowAction(changeset[3]) = sUpdate /\ changeset[3]["amount"] = <<"9">>
    /\ Len(result[1]) = 4
    /\ ~(\E k \in 1..4 : result[1][k]["id"] = <<"1">>)

\* a delete of id 1 after its split parts: the group is dangling
C25_DeleteAfterSplit ==
    /\ pc = "returned"
    /\ Len(changeset) = 2
    /\ RowAction(changeset[1]) = sSplit /\ RowId(changeset[1]) = <<"1">>
    /\ RowAction(changeset[2]) = sDelete /\ RowId(changeset[2]) = <<"1">>
    /\ stderr = <<"WARN: split: dangling id">>

-----------------------------------------------------------------------------
(* Columns of the rows and of the column list returned by apply_changeset *)

\* base A, its second record having a column of its own
BaseC ==
    << BaseA[1],
       [id |-> <<"2">>, date |-> <<"d">>, description |-> <<"b">>,
        amount |-> <<"1", "0">>, account |-> <<"k">>, category |-> <<>>,
        memo |-> <<"m">>] >>

\* an add that names no column the base lacks, and two updates, one with a
\* column that neither the base nor the add has
ColumnOps ==
    { [type |-> sAdd, date |-> <<"d">>, description |-> <<"x">>,
       amount |-> <<"5">>, account |-> <<"k">>],
      [type |-> sUpdate, id |-> <<"1">>, notes |-> <<"n">>],
      [type |-> sUpdate, id |-> <<"2">>, category |-> <<"g">>] }

CallColumns ==
    /\ pc = "idle"
    /\ \E base \in {BaseA, BaseC}, cs \in SeqsUpTo(ColumnOps, MaxOps) :
          Call(base, cs, FALSE)

NextColumns ==
    \/ CallColumns
    \/ DoAdd
    \/ DoUpdate
    \/ Return

RECURSIVE KeysOf(_)
\* the union of the field names of rows
KeysOf(rows) == IF rows = <<>> THEN {} ELSE DOMAIN Head(rows) \cup KeysOf(Tail(rows))

\* the field names of every base record and of every changeset row
AllColumns == KeysOf(primary_at_call) \cup KeysOf(changeset)

\* C26: the column list returned is the sorted union of the field names of every
\* base record and every changeset row, and the record an add creates has every
\* column of that union, wherever the add stands in the changeset.
C26_ColumnsAreUnion ==
    [][/\ pc' = "returned" => result'[2] = SortedFields(AllColumns)
       /\ (InLoop /\ RowAction(Row) = <<"a", "d", "d">>)
          => DOMAIN heap'[Len(heap')] = AllColumns]_vars

\* the column list part of C26 alone
C26_ColumnListIsUnion ==
    pc = "returned" => result[2] = SortedFields(AllColumns)

\* the part of C26 about the record an add creates, on bases whose records all
\* have the same columns
C26_AddedRowHasUnion ==
    [][(InLoop /\ RowAction(Row) = <<"a", "d", "d">> /\ primary_at_call = BaseA)
       => DOMAIN heap'[Len(heap')] = AllColumns]_vars

-----------------------------------------------------------------------------
(* read_one against the scan of the file *)

(* C27: read_one of an id that a row of the file has returns the column-to-value
   mapping that the scan of the file gives for the row of that id, whatever the
   fields hold. *)
C27_ReadOneEqualsScan ==
    (last_call.op = "read_one" /\ data.exists /\ last_call.args \in Range(FileIds))
    => /\ last_call.outcome = "ok"
       /\ \E k \in 1..Len(FileIds) :
             /\ FileIds[k] = last_call.args
             /\ last_call.ret = FileRows(data.lines)[k]

\* the same for rows none of whose fields had to be quoted by the writer
C27_ReadOneEqualsScanUnquoted ==
    (/\ last_call.op = "read_one" /\ data.exists /\ last_call.args \in Range(FileIds)
     /\ \A k \in 2..Len(data.lines) : ~NeedsQuote(data.lines[k]))
    => /\ last_call.outcome = "ok"
       /\ \E k \in 1..Len(FileIds) :
             /\ FileIds[k] = last_call.args
             /\ last_call.ret = FileRows(data.lines)[k]

-----------------------------------------------------------------------------
(* The temp file of safe_file_update_context *)

(* C28: whenever a with block of safe_file_update_context ends, by commit, by a
   dry run, or by an Exception or a SystemExit of the caller's work, the temp
   file made on entry no longer exists. *)
C28_TempGoneAfterExit ==
    [][Exits => ~temp_path'.exists]_vars

\* the same for the exits that are neither a dry run that returns nor a SystemExit
C28_TempGoneAfterCommitOrException ==
    [][(Exits /\ ctx'.work # "SystemExit" /\ ~(ctx.dry_run /\ ctx'.work = "returns"))
       => ~temp_path'.exists]_vars

-----------------------------------------------------------------------------
(* Frame of add in apply_changeset *)

\* an add row is about to be processed
AddNext == InLoop /\ RowAction(Row) = <<"a", "d", "d">>

\* every record of the working set is still there with the values it has now
RecordsKept ==
    \A k \in 1..Len(merged) :
        /\ DictHas(merged', merged[k][1])
        /\ heap'[DictGet(merged', merged[k][1])] = heap[merged[k][2]]

\* the id the add row will get
AddId == stable_id(AddBlankRow(all_fields \cup DOMAIN Row, NonemptyFields(Row)))

\* C29: an add leaves every record that was in the working set before it present
\* and with the same field values.
C29_AddKeepsRecords == [][AddNext => RecordsKept]_vars

\* the same for an add whose id no record of the working set has
C29_AddOfNewIdKeepsRecords ==
    [][(AddNext /\ ~DictHas(merged, AddId)) => RecordsKept]_vars

-----------------------------------------------------------------------------
(* Ids under batch_update and batch_replace *)

\* the ids of the rows of the file are, row by row, what they were, and the
\* index has the keys it had
IdsPreserved ==
    /\ IdsOf(FileRows(data'.lines)) = IdsOf(FileRows(data.lines))
    /\ DictKeys(index') = DictKeys(index)

(* C30: a batch_update or batch_replace that returns leaves the file with as many
   rows as before, in the same order and each with the id it had, and the index
   with the same ids, whatever the argument, field values for the id column
   included. *)
C30_UpdatesPreserveIds ==
    [][(last_call'.op \in {"batch_update", "batch_replace"} /\ Succeeds
        /\ data.exists /\ opened)
       => IdsPreserved]_vars

\* the same for arguments that give no value for the id column
C30_UpdatesOfOtherColumnsPreserveIds ==
    [][\A u \in ReplacePool :
          ((BatchUpdate(u, NoFailure) \/ BatchReplace(u, NoFailure))
           /\ Succeeds /\ IdNotGiven(u))
          => IdsPreserved]_vars

-----------------------------------------------------------------------------
(* Specifications *)

Init == ApplyIdle /\ StoreIdle /\ TxIdle /\ HashIdle

SpecApply == Init /\ [][NextApply]_vars

SpecStore == Init /\ [][NextStore]_vars

SpecSuccessful == Init /\ [][NextSuccessful]_vars

SpecIndexed == Init /\ [][NextIndexed]_vars

SpecRead == Init /\ [][NextRead]_vars

SpecDeleted == Init /\ [][NextDeleted]_vars

SpecAppend == Init /\ [][NextAppend]_vars

SpecRoundTrip == Init /\ [][NextRoundTrip]_vars

SpecTx == Init /\ [][NextTx]_vars

SpecHeal == Init /\ [][NextHeal]_vars

SpecMissing == Init /\ [][NextMissing]_vars

SpecReapply == Init /\ [][NextReapply]_vars

SpecHash == Init /\ [][NextHash]_vars

SpecReplace == Init /\ [][NextReplace]_vars

SpecColumns == Init /\ [][NextColumns]_vars

====
